---- MODULE Spec2Model ----
(***************************************************************************)
(* A model of angle-builder (kivy/angle-builder): ANGLE.build and the      *)
(* operations it calls, from src/src/angle_builder/angle.py.               *)
(*                                                                         *)
(* The methods of str and os.path are computed on sequences of one-        *)
(* character strings, so that str.startswith, str.replace, os.path.join    *)
(* and the resolution of a path string to a file are computed, not         *)
(* assumed.  The state holds each Python string as one TLA+ string; a file *)
(* is named by the sequence of the components of its path.                 *)
(***************************************************************************)
EXTENDS Naturals, Sequences, FiniteSets, TLC

(***************************************************************************)
(* Bounds of the model.                                                    *)
(***************************************************************************)
\* number of calls of ANGLE.build on the same workspace
MaxBuilds == 2

\* number of calls of the methods of StorageFolderManager and DepotTools
MaxCalls == 3

\* length of a branch name
MaxBranchLen == 3

(***************************************************************************)
(* String literals of the source.                                          *)
(***************************************************************************)
macos_x64 == <<"m", "a", "c", "o", "s", "-", "x", "6", "4">>
macos_arm64 == <<"m", "a", "c", "o", "s", "-", "a", "r", "m", "6", "4">>
macos_universal == <<"m", "a", "c", "o", "s", "-", "u", "n", "i", "v", "e", "r", "s", "a", "l">>
iphoneos_arm64 == <<"i", "p", "h", "o", "n", "e", "o", "s", "-", "a", "r", "m", "6", "4">>
iphonesimulator_x64 == <<"i", "p", "h", "o", "n", "e", "s", "i", "m", "u", "l", "a", "t", "o", "r", "-", "x", "6", "4">>
iphonesimulator_arm64 == <<"i", "p", "h", "o", "n", "e", "s", "i", "m", "u", "l", "a", "t", "o", "r", "-", "a", "r", "m", "6", "4">>
iphoneall_universal == <<"i", "p", "h", "o", "n", "e", "a", "l", "l", "-", "u", "n", "i", "v", "e", "r", "s", "a", "l">>
iphonesimulator_universal == <<"i", "p", "h", "o", "n", "e", "s", "i", "m", "u", "l", "a", "t", "o", "r", "-", "u", "n", "i", "v", "e", "r", "s", "a", "l">>
macos == <<"m", "a", "c", "o", "s">>
iphone == <<"i", "p", "h", "o", "n", "e">>
out == <<"o", "u", "t">>
include == <<"i", "n", "c", "l", "u", "d", "e">>
LICENSE == <<"L", "I", "C", "E", "N", "S", "E">>
libEGL == <<"l", "i", "b", "E", "G", "L">>
libGLESv2 == <<"l", "i", "b", "G", "L", "E", "S", "v", "2">>
dot_dylib == <<".", "d", "y", "l", "i", "b">>
dot_framework == <<".", "f", "r", "a", "m", "e", "w", "o", "r", "k">>
dot_xcframework == <<".", "x", "c", "f", "r", "a", "m", "e", "w", "o", "r", "k">>
dot_tar_gz == <<".", "t", "a", "r", ".", "g", "z">>
angle_dash == <<"a", "n", "g", "l", "e", "-">>
depot_tools == <<"d", "e", "p", "o", "t", "_", "t", "o", "o", "l", "s">>
gclient == <<"g", "c", "l", "i", "e", "n", "t">>
Info_plist == <<"I", "n", "f", "o", ".", "p", "l", "i", "s", "t">>

\* the documented values of output_artifact_mode (docstring of ANGLE.build)
EnumeratedModes ==
    { macos_x64, macos_arm64, macos_universal, iphoneos_arm64,
      iphonesimulator_x64, iphonesimulator_arm64, iphoneall_universal }

\* the modes that plan one target
SimpleModes ==
    { macos_x64, macos_arm64, iphoneos_arm64,
      iphonesimulator_x64, iphonesimulator_arm64 }

\* values of the command line's positional argument outside the enumeration
macos_foo == <<"m", "a", "c", "o", "s", "-", "f", "o", "o">>
iphone_foo == <<"i", "p", "h", "o", "n", "e", "-", "f", "o", "o">>
foo == <<"f", "o", "o">>
macos_x64_slash == <<"m", "a", "c", "o", "s", "-", "x", "6", "4", "/">>
OtherModes == { macos_foo, iphone_foo, foo, macos_x64_slash }

\* the values build is called with in this model
Modes == EnumeratedModes \cup OtherModes

(***************************************************************************)
(* str and os.path                                                         *)
(***************************************************************************)
\* the TLA+ string of a sequence of characters
RECURSIVE text(_)
text(cs) == IF cs = <<>> THEN "" ELSE Head(cs) \o text(Tail(cs))

\* str.startswith
startswith(s, p) == Len(s) >= Len(p) /\ SubSeq(s, 1, Len(p)) = p

\* str.replace(c, r) for a one-character c
RECURSIVE replace(_, _, _)
replace(s, c, r) ==
    IF s = <<>> THEN <<>>
    ELSE (IF Head(s) = c THEN r ELSE <<Head(s)>>) \o replace(Tail(s), c, r)

\* posixpath.join of two strings
join2(a, b) ==
    IF b # <<>> /\ Head(b) = "/" THEN b
    ELSE IF a = <<>> \/ a[Len(a)] = "/" THEN a \o b
    ELSE a \o <<"/">> \o b

\* os.path.join(parts[1], parts[2], ...)
RECURSIVE join(_)
join(parts) ==
    IF Len(parts) = 1 THEN parts[1]
    ELSE join2(join(SubSeq(parts, 1, Len(parts) - 1)), parts[Len(parts)])

\* The file a path string names: its components, a repeated or trailing
\* separator naming nothing (POSIX pathname resolution).
RECURSIVE components(_, _)
components(s, cur) ==
    IF s = <<>> THEN (IF cur = <<>> THEN <<>> ELSE <<cur>>)
    ELSE IF Head(s) = "/"
         THEN (IF cur = <<>> THEN <<>> ELSE <<cur>>) \o components(Tail(s), <<>>)
         ELSE components(Tail(s), Append(cur, Head(s)))

resolve(s) == LET cs == components(s, <<>>) IN [i \in DOMAIN cs |-> text(cs[i])]

\* index of the last "/" of s, 0 when there is none
RECURSIVE rfind_sep(_, _)
rfind_sep(s, i) ==
    IF i = 0 THEN 0 ELSE IF s[i] = "/" THEN i ELSE rfind_sep(s, i - 1)

\* posixpath.basename
basename(s) == SubSeq(s, rfind_sep(s, Len(s)) + 1, Len(s))

\* posixpath.dirname (of a path with no run of separators before its last part)
dirname(s) ==
    LET i == rfind_sep(s, Len(s))
    IN  IF i <= 1 THEN SubSeq(s, 1, i) ELSE SubSeq(s, 1, i - 1)

IsPrefix(p, q) == Len(p) <= Len(q) /\ SubSeq(q, 1, Len(p)) = p

(***************************************************************************)
(* The object under test: ANGLE(branch, storage_manager, revision).        *)
(***************************************************************************)
\* StorageFolderManager.folder_path
folder_path == <<"/", "s">>

\* ANGLE.branch
branch == <<"c", "/", "6">>

\* the output_folder argument of build
output_folder == <<"/", "o">>

\* ANGLE.underlined_branch of an object of branch b
underlined(b) == replace(replace(b, ".", <<"_">>), "/", <<"_", "_">>)

\* ANGLE.angle_path of an object of branch b
angle_path_of(b) == join(<<folder_path, angle_dash \o underlined(b)>>)

underlined_branch == underlined(branch)

angle_path == angle_path_of(branch)

\* os.path.join(self.angle_path, "out", d, f)
out_path(d, f) == join(<<angle_path, out, d, f>>)

\* os.path.join(self.angle_path, "out", d)
out_dir(d) == join(<<angle_path, out, d>>)

Libraries == {libEGL, libGLESv2}

\* the binary and the Info.plist of a framework bundle
binary_of(fw, lib) == join(<<fw, lib>>)
plist_of(fw) == join(<<fw, Info_plist>>)

\* DepotTools.depot_tools_path
depot_tools_path == join(<<folder_path, depot_tools>>)

\* the two folders _create_iphoneos_frameworks recreates
iphone_universal_folder ==
    join(<<angle_path, out, iphoneos_arm64, iphoneall_universal>>)

iphonesimulator_universal_folder == out_dir(iphonesimulator_universal)

\* the file shutil.make_archive(base_name, "gztar", root_dir=temp_dir) writes
archive_name(m) == join(<<output_folder, angle_dash \o m>>) \o dot_tar_gz

\* the directories of out the program names
Names == Modes \cup {iphonesimulator_universal}

Extensions == {dot_dylib, dot_framework, dot_xcframework}

\* the paths the program can compute
Paths ==
    { folder_path, output_folder, angle_path, join(<<angle_path, out>>),
      join(<<angle_path, include>>), join(<<angle_path, LICENSE>>),
      iphone_universal_folder, iphonesimulator_universal_folder,
      depot_tools_path, join(<<depot_tools_path, gclient>>) }
    \cup { out_dir(d) : d \in Names }
    \cup UNION { { out_path(d, lib \o e), binary_of(out_path(d, lib \o e), lib),
                   plist_of(out_path(d, lib \o e)) } :
                     d \in Names, lib \in Libraries, e \in Extensions }
    \cup UNION { { archive_name(m), dirname(archive_name(m)) } : m \in Modes }

\* the values of type str the program can compute
Strings ==
    Paths \cup Modes \cup {<<>>, include, LICENSE} \cup { basename(p) : p \in Paths }

\* The conversions, each computed once for every value it can be asked for
\* (f @@ <<>> is f as an explicit table).
str_table == [cs \in Strings |-> text(cs)] @@ <<>>
unstr_table ==
    [s \in { text(cs) : cs \in Strings } |-> CHOOSE cs \in Strings : text(cs) = s] @@ <<>>
file_table == [s \in Paths |-> resolve(s)] @@ <<>>

\* the state holds a str as a TLA+ string
str(cs) == str_table[cs]

\* the characters of a string of the state
unstr(s) == unstr_table[s]

\* the file a path names
file(s) == file_table[s]

(***************************************************************************)
(* ANGLE._generate_build_targets                                           *)
(***************************************************************************)
Arg(k, v) == [key |-> k, value |-> v]

common_gn_args ==
    << Arg("is_component_build", "false"),
       Arg("is_debug", "false"),
       Arg("angle_enable_wgpu", "false"),
       Arg("mac_deployment_target", "\"10.15\"") >>

\* the planner of a mutant: the new target is put before the others
append_if_front(builds, m, modes, name, args) ==
    IF m \in modes
    THEN << [name |-> str(name), gn_args |-> common_gn_args \o args] >> \o builds
    ELSE builds

\* the planner of a mutant: the condition tests the name, not the mode
append_if_name(builds, m, modes, name, args) ==
    IF name \in modes
    THEN Append(builds, [name |-> str(name), gn_args |-> common_gn_args \o args])
    ELSE builds

\* the planner of a mutant: the common arguments are left out
append_if_bare(builds, m, modes, name, args) ==
    IF m \in modes
    THEN Append(builds, [name |-> str(name), gn_args |-> args])
    ELSE builds

\* one "if output_artifact_mode in (...): builds.append({...})"
append_if(builds, m, modes, name, args) ==
    IF m \in modes
    THEN Append(builds, [name |-> str(name), gn_args |-> common_gn_args \o args])
    ELSE builds

_generate_build_targets(m) ==
    LET b1 == append_if(<<>>, m, {macos_arm64, macos_universal}, macos_arm64,
                  << Arg("target_cpu", "\"arm64\""), Arg("target_os", "\"mac\"") >>)
        b2 == append_if(b1, m, {macos_x64, macos_universal}, macos_x64,
                  << Arg("target_cpu", "\"x64\""), Arg("target_os", "\"mac\"") >>)
        b3 == append_if(b2, m, {iphoneos_arm64, iphoneall_universal}, iphoneos_arm64,
                  << Arg("target_cpu", "\"arm64\""), Arg("target_os", "\"ios\""),
                     Arg("ios_enable_code_signing", "false") >>)
        b4 == append_if(b3, m, {iphonesimulator_x64, iphoneall_universal},
                  iphonesimulator_x64,
                  << Arg("target_cpu", "\"x64\""), Arg("target_os", "\"ios\""),
                     Arg("target_environment", "\"simulator\""),
                     Arg("ios_enable_code_signing", "false") >>)
        b5 == append_if(b4, m, {iphonesimulator_arm64, iphoneall_universal},
                  iphonesimulator_arm64,
                  << Arg("target_cpu", "\"arm64\""), Arg("target_os", "\"ios\""),
                     Arg("target_environment", "\"simulator\""),
                     Arg("ios_enable_code_signing", "false") >>)
    IN  b5

(***************************************************************************)
(* Paths the code builds.                                                  *)
(***************************************************************************)
(***************************************************************************)
(* The file system: fs is the set of the files and directories that exist  *)
(* (each one the sequence of its path's components), attr the facts about  *)
(* their contents that the tools set:                                      *)
(*   <<f, "short_version">>  plutil set CFBundleShortVersionString in f    *)
(*   <<f, "fat">>            f is the output of lipo -create               *)
(*   <<f, "rpath_id">>       install_name_tool set the id of f             *)
(*   <<f, "dir">>            f is a directory                              *)
(* Operations of os and shutil succeed exactly when their arguments allow  *)
(* it; a subprocess may exit non-zero whenever it runs.                    *)
(***************************************************************************)
VARIABLES
    pc,             \* the statement of build that runs next
    mode,           \* output_artifact_mode of the running build
    build_targets,  \* the list _generate_build_targets returned
    idx,            \* position of a for loop in its list
    libs,           \* the local of build: bound, and the list fusion returned
    fs,
    attr,
    archives,       \* the files under output_folder
    tmp,            \* the names in the TemporaryDirectory of build
    log,            \* the calls of subprocess, os and shutil, of this build
    error,          \* the exception that left build, "" when none
    runs,           \* the number of calls of build so far
    revision,       \* ANGLE.revision: "" is None
    environ,        \* os.environ
    angles          \* other ANGLE objects on the workspace: branch, angle_path read

vars == <<pc, mode, build_targets, idx, libs, fs, attr, archives, tmp, log,
          error, runs, revision, environ, angles>>

\* os.path.exists
exists(s) == file(s) \in fs

\* the directories above f, and f
RECURSIVE with_parents(_)
with_parents(f) ==
    IF f = <<>> THEN {} ELSE {f} \cup with_parents(SubSeq(f, 1, Len(f) - 1))

\* fs after os.makedirs(s)
makedirs(files, s) == files \cup with_parents(file(s))

\* attr after os.makedirs(s)
makedirs_attr(facts, s) == facts \cup { <<d, "dir">> : d \in with_parents(file(s)) }

\* os.path.isdir
isdir(s) == exists(s) /\ <<file(s), "dir">> \in attr

\* fs after shutil.rmtree(s)
rmtree(files, s) == { f \in files : ~IsPrefix(file(s), f) }

\* attr after the files under s are removed
rmtree_attr(facts, s) == { a \in facts : ~IsPrefix(file(s), a[1]) }

\* f, a file under src, moved under dst
rebase(f, src, dst) == file(dst) \o SubSeq(f, Len(file(src)) + 1, Len(f))

\* fs after shutil.copytree(src, dst)
copytree(files, src, dst) ==
    files \cup with_parents(file(dst))
          \cup { rebase(f, src, dst) : f \in { g \in files : IsPrefix(file(src), g) } }

\* attr after shutil.copytree(src, dst)
copytree_attr(facts, src, dst) ==
    facts \cup { <<rebase(a[1], src, dst), a[2]>> :
                     a \in { b \in facts : IsPrefix(file(src), b[1]) } }

\* fs after a tool wrote the file s in an existing directory
write(files, s) == files \cup {file(s)}

has(facts, s, tag) == <<file(s), tag>> \in facts

\* an entry of log: the method of ANGLE that made the call, the program or
\* function called, its path arguments, and whether it succeeded (a process
\* that exits non-zero, a function that raises, did not)
Call(by, op, args, ok) ==
    [by |-> by, op |-> op, args |-> [i \in DOMAIN args |-> str(args[i])], ok |-> ok]

\* an exception leaves build: the with statement removes the temporary directory
Raise(exc) ==
    /\ pc' = "failed"
    /\ error' = exc
    /\ tmp' = {}

\* a mutant: check=True is missing, the statement after the call always runs
checked_never(ok, then_pc, exc) ==
    pc' = then_pc /\ UNCHANGED <<error, tmp>>

\* subprocess.run(..., check=True), shutil and os functions: the statement
\* after the call runs if the call succeeded, else the exception leaves build
checked(ok, then_pc, exc) ==
    IF ok
    THEN pc' = then_pc /\ UNCHANGED <<error, tmp>>
    ELSE Raise(exc)

Unbound == [bound |-> FALSE, paths |-> <<>>]
Bound(paths) == [bound |-> TRUE, paths |-> [i \in DOMAIN paths |-> str(paths[i])]]

TypeOK ==
    /\ pc \in STRING
    /\ mode \in {str(m) : m \in Modes} \cup {""}
    /\ idx \in 0..3
    /\ runs \in Nat
    /\ error \in {"", "CalledProcessError", "FileNotFoundError",
                  "FileExistsError", "UnboundLocalError", "OSError", "KeyError"}
    /\ DOMAIN environ \subseteq {"PATH"}

Init ==
    /\ pc = "idle"
    /\ mode = ""
    /\ build_targets = <<>>
    /\ idx = 0
    /\ libs = Unbound
    /\ fs = {}
    /\ attr = {}
    /\ archives = {}
    /\ tmp = {}
    /\ log = <<>>
    /\ error = ""
    /\ runs = 0
    /\ revision \in {"", "rev"}
    /\ environ = [PATH |-> depot_tools_path \o <<":", "/", "b">>]
    /\ angles = <<>>

(***************************************************************************)
(* ANGLE.build, statement by statement.                                    *)
(***************************************************************************)
clone_needed_always == TRUE

\* clone_and_checkout: if not os.path.exists(self.angle_path)
clone_needed == ~exists(angle_path)

\* build(output_artifact_mode, output_folder) is called; its first statement,
\* clone_and_checkout, starts with storage_manager.ensure_folder()
Build ==
    /\ pc \in {"idle", "done", "failed"}
    /\ runs < MaxBuilds
    /\ \E m \in Modes : mode' = str(m)
    /\ runs' = runs + 1
    /\ build_targets' = <<>>
    /\ idx' = 0
    /\ libs' = Unbound
    /\ log' = <<>>
    /\ error' = ""
    /\ tmp' = {}
    /\ fs' = IF exists(folder_path) THEN fs ELSE makedirs(fs, folder_path)
    /\ attr' = IF exists(folder_path) THEN attr ELSE makedirs_attr(attr, folder_path)
    /\ pc' = IF clone_needed THEN "clone" ELSE "checkout"
    /\ UNCHANGED <<archives, revision, environ, angles>>

\* the files of a fresh clone
checkout_files ==
    { file(angle_path), file(join(<<angle_path, include>>)),
      file(join(<<angle_path, LICENSE>>)) }

\* _clone_angle: git clone --branch ... angle_path
CloneAngle ==
    /\ pc = "clone"
    /\ \E exit0 \in BOOLEAN :
          LET ok == exit0 /\ isdir(folder_path) /\ ~exists(angle_path)
          IN  /\ log' = Append(log, Call("_clone_angle", "git clone", <<angle_path>>, ok))
              /\ fs' = IF ok THEN fs \cup checkout_files ELSE fs
              /\ attr' = IF ok THEN makedirs_attr(attr, join(<<angle_path, include>>))
                         ELSE attr
              /\ checked(ok, "checkout", "CalledProcessError")
    /\ UNCHANGED <<mode, build_targets, idx, libs, archives, runs, revision, environ, angles>>

\* _checkout_revision: git checkout, if a revision was given
CheckoutRevision ==
    /\ pc = "checkout"
    /\ IF revision # ""
       THEN \E exit0 \in BOOLEAN :
               LET ok == exit0 /\ isdir(angle_path)
               IN  /\ log' = Append(log, Call("_checkout_revision", "git checkout",
                                              <<angle_path>>, ok))
                   /\ checked(ok, "bootstrap", "CalledProcessError")
       ELSE /\ pc' = "bootstrap"
            /\ UNCHANGED <<log, error, tmp>>
    /\ UNCHANGED <<mode, build_targets, idx, libs, fs, attr, archives, runs, revision, environ, angles>>

\* bootstrap: python scripts/bootstrap.py
Bootstrap ==
    /\ pc = "bootstrap"
    /\ \E exit0 \in BOOLEAN :
          LET ok == exit0 /\ isdir(angle_path)
          IN  /\ log' = Append(log, Call("bootstrap", "python", <<angle_path>>, ok))
              /\ checked(ok, "sync", "CalledProcessError")
    /\ UNCHANGED <<mode, build_targets, idx, libs, fs, attr, archives, runs, revision, environ, angles>>

\* the argument of the running build
output_artifact_mode == unstr(mode)

\* the name of a build target of the plan
name_of(build) == unstr(build.name)

\* the statement after the two for loops of build
after_loops(m) ==
    IF startswith(m, macos) THEN "create_macos_dylibs"
    ELSE IF startswith(m, iphone) THEN "create_iphoneos_frameworks"
    ELSE "archive"

\* sync: gclient sync; then build_targets = _generate_build_targets(mode),
\* and the first for loop starts
Sync ==
    /\ pc = "sync"
    /\ \E exit0 \in BOOLEAN :
          LET ok == exit0 /\ isdir(angle_path)
          IN  /\ log' = Append(log, Call("sync", "gclient sync", <<angle_path>>, ok))
              /\ build_targets' = IF ok THEN _generate_build_targets(output_artifact_mode)
                                  ELSE build_targets
              /\ idx' = IF ok THEN 1 ELSE idx
              /\ checked(ok,
                         IF _generate_build_targets(output_artifact_mode) = <<>>
                         THEN after_loops(output_artifact_mode) ELSE "gn_gen",
                         "CalledProcessError")
    /\ UNCHANGED <<mode, libs, fs, attr, archives, runs, revision, environ, angles>>

\* _gn_gen(build_targets[idx]): gn gen out/<name> --args=...; after the last
\* target the second for loop starts
GnGen ==
    /\ pc = "gn_gen"
    /\ \E exit0 \in BOOLEAN :
          LET name == name_of(build_targets[idx])
              ok == exit0 /\ isdir(angle_path)
              more == idx < Len(build_targets)
          IN  /\ log' = Append(log, Call("_gn_gen", "gn gen", <<out_dir(name)>>, ok))
              /\ fs' = IF ok THEN makedirs(fs, out_dir(name)) ELSE fs
              /\ attr' = IF ok THEN makedirs_attr(attr, out_dir(name)) ELSE attr
              /\ idx' = IF ~ok THEN idx ELSE IF more THEN idx + 1 ELSE 1
              /\ checked(ok, IF more THEN "gn_gen" ELSE "autoninja",
                         "CalledProcessError")
    /\ UNCHANGED <<mode, build_targets, libs, archives, runs, revision, environ, angles>>

\* the files autoninja -C out/<name> libEGL libGLESv2 builds
outputs_of(name) ==
    IF startswith(name, iphone)
    THEN UNION { { file(out_path(name, lib \o dot_framework)),
                   file(binary_of(out_path(name, lib \o dot_framework), lib)),
                   file(plist_of(out_path(name, lib \o dot_framework))) } :
                 lib \in Libraries }
    ELSE { file(out_path(name, lib \o dot_dylib)) : lib \in Libraries }

\* the directories among them
output_dirs_of(name) ==
    IF startswith(name, iphone)
    THEN { <<file(out_path(name, lib \o dot_framework)), "dir">> : lib \in Libraries }
    ELSE {}

\* attr after autoninja built the outputs of name anew
rebuilt_attr(facts, name) ==
    { a \in facts : a[1] \notin outputs_of(name) } \cup output_dirs_of(name)

\* a mutant: the body of the second loop uses the variable the first loop left
build_target_stale(i) == build_targets[Len(build_targets)]

\* for build_target in build_targets: the loop variable at position i
build_target(i) == build_targets[i]

\* the position of the second for loop after the body ran for build_targets[i]
next_idx(i) == IF i < Len(build_targets) THEN i + 1 ELSE i

\* a mutant: the statements after the loop are part of its body
next_pc_inside(i) == after_loops(output_artifact_mode)

\* the statement that runs then: the body again, or the one after the loop
next_pc(i) == IF i < Len(build_targets) THEN "autoninja" ELSE after_loops(output_artifact_mode)

\* a mutant: only the device bundles are patched
needs_patch_device(name) == startswith(name, iphoneos_arm64)

\* if build_target["name"].startswith("iphone"):
needs_patch(name) == startswith(name, iphone)

\* _autoninja_build(build_targets[idx]); ninja builds the outputs that are
\* out of date and leaves the others as they are
AutoninjaBuild ==
    /\ pc = "autoninja"
    /\ \E exit0 \in BOOLEAN, rebuilt \in BOOLEAN :
          LET name == name_of(build_target(idx))
              ok == exit0 /\ isdir(out_dir(name))
              anew == rebuilt \/ ~(outputs_of(name) \subseteq fs)
          IN  /\ log' = Append(log, Call("_autoninja_build", "autoninja",
                                         <<out_dir(name)>>, ok))
              /\ fs' = IF ok THEN fs \cup outputs_of(name) ELSE fs
              /\ attr' = IF ok /\ anew THEN rebuilt_attr(attr, name) ELSE attr
              /\ idx' = IF ok /\ ~needs_patch(name) THEN next_idx(idx) ELSE idx
              /\ checked(ok,
                         IF needs_patch(name) THEN "patch_libEGL" ELSE next_pc(idx),
                         "CalledProcessError")
    /\ UNCHANGED <<mode, build_targets, libs, archives, runs, revision, environ, angles>>

\* _patch_frameworks_plist(framework_path): plutil -replace
\* CFBundleShortVersionString -string 1.0 <framework_path>/Info.plist
_patch_frameworks_plist(framework_path, exit0, then_pc) ==
    LET ok == exit0 /\ exists(plist_of(framework_path))
    IN  /\ log' = Append(log, Call("_patch_frameworks_plist", "plutil",
                                   <<plist_of(framework_path)>>, ok))
        /\ attr' = IF ok
                   THEN attr \cup {<<file(plist_of(framework_path)), "short_version">>}
                   ELSE attr
        /\ checked(ok, then_pc, "CalledProcessError")

PatchLibEGL ==
    /\ pc = "patch_libEGL"
    /\ \E exit0 \in BOOLEAN :
          _patch_frameworks_plist(
              out_path(name_of(build_target(idx)), libEGL \o dot_framework), exit0,
              "patch_libGLESv2")
    /\ UNCHANGED <<mode, build_targets, idx, libs, fs, archives, runs, revision, environ, angles>>

\* the second patch ends the body of the loop
PatchLibGLESv2 ==
    /\ pc = "patch_libGLESv2"
    /\ \E exit0 \in BOOLEAN :
          _patch_frameworks_plist(
              out_path(name_of(build_target(idx)), libGLESv2 \o dot_framework), exit0,
              next_pc(idx))
    /\ idx' = IF pc' = "failed" THEN idx ELSE next_idx(idx)
    /\ UNCHANGED <<mode, build_targets, libs, fs, archives, runs, revision, environ, angles>>

(***************************************************************************)
(* Fusion: _create_macos_dylibs and _create_iphoneos_frameworks.           *)
(***************************************************************************)
\* what the statements of the two fusion methods leave alone
fusion_frame == UNCHANGED <<mode, build_targets, idx, archives, runs, revision, environ, angles>>

\* one checked call of fusion: it does its work, or its exception leaves build
step(call, files, facts, then_pc, exc) ==
    /\ log' = Append(log, call)
    /\ fs' = IF call.ok THEN files ELSE fs
    /\ attr' = IF call.ok THEN facts ELSE attr
    /\ checked(call.ok, then_pc, exc)

\* a mutant: lipo without check=True, the next statement runs whatever it did
lipo_unchecked(by, a, b, o, exit0, then_pc) ==
    LET ok == exit0 /\ exists(a) /\ exists(b) /\ isdir(dirname(o))
    IN  /\ log' = Append(log, Call(by, "lipo", <<a, b, o>>, ok))
        /\ fs' = IF ok THEN write(fs, o) ELSE fs
        /\ attr' = IF ok
                   THEN { f \in attr : f[1] # file(o) } \cup {<<file(o), "fat">>}
                   ELSE attr
        /\ pc' = then_pc
        /\ UNCHANGED <<error, tmp>>

\* subprocess.run(["lipo", "-create", a, b, "-output", o], check=True)
lipo(by, a, b, o, exit0, then_pc) ==
    step(Call(by, "lipo", <<a, b, o>>,
              exit0 /\ exists(a) /\ exists(b) /\ isdir(dirname(o))),
         write(fs, o),
         { f \in attr : f[1] # file(o) } \cup {<<file(o), "fat">>},
         then_pc, "CalledProcessError")

\* a mutant: the paths are always those of the universal folder
macos_dylib_paths_universal(m) ==
    << out_path(macos_universal, libEGL \o dot_dylib),
       out_path(macos_universal, libGLESv2 \o dot_dylib) >>

\* the paths _create_macos_dylibs returns
macos_dylib_paths(m) ==
    << out_path(m, libEGL \o dot_dylib), out_path(m, libGLESv2 \o dot_dylib) >>

\* _create_macos_dylibs for a mode other than macos-universal
CreateMacosDylibs ==
    /\ pc = "create_macos_dylibs"
    /\ output_artifact_mode # macos_universal
    /\ libs' = Bound(macos_dylib_paths(output_artifact_mode))
    /\ pc' = "archive"
    /\ UNCHANGED <<fs, attr, log, error, tmp>>
    /\ fusion_frame

\* if os.path.exists(macos_universal_folder): shutil.rmtree(...)
\* os.makedirs(macos_universal_folder)
MacosRecreateFolder ==
    /\ pc = "create_macos_dylibs"
    /\ output_artifact_mode = macos_universal
    /\ LET d == out_dir(macos_universal)
           by == "_create_macos_dylibs"
       IN  /\ log' = log \o (IF exists(d) THEN <<Call(by, "rmtree", <<d>>, TRUE)>>
                             ELSE <<>>)
                         \o <<Call(by, "makedirs", <<d>>, TRUE)>>
           /\ fs' = makedirs(rmtree(fs, d), d)
           /\ attr' = makedirs_attr(rmtree_attr(attr, d), d)
    /\ pc' = "macos_lipo_libEGL"
    /\ UNCHANGED <<libs, error, tmp>>
    /\ fusion_frame

MacosLipoLibEGL ==
    /\ pc = "macos_lipo_libEGL"
    /\ \E exit0 \in BOOLEAN :
          lipo("_create_macos_dylibs",
               out_path(macos_x64, libEGL \o dot_dylib),
               out_path(macos_arm64, libEGL \o dot_dylib),
               macos_dylib_paths(output_artifact_mode)[1], exit0, "macos_lipo_libGLESv2")
    /\ UNCHANGED libs
    /\ fusion_frame

MacosLipoLibGLESv2 ==
    /\ pc = "macos_lipo_libGLESv2"
    /\ \E exit0 \in BOOLEAN :
          lipo("_create_macos_dylibs",
               out_path(macos_x64, libGLESv2 \o dot_dylib),
               out_path(macos_arm64, libGLESv2 \o dot_dylib),
               macos_dylib_paths(output_artifact_mode)[2], exit0, "macos_id_libEGL")
    /\ UNCHANGED libs
    /\ fusion_frame

\* subprocess.run(["install_name_tool", "-id", "@rpath/<lib>.dylib", path])
install_name_tool(path, exit0, then_pc) ==
    step(Call("_create_macos_dylibs", "install_name_tool", <<path>>,
              exit0 /\ exists(path)),
         fs, attr \cup {<<file(path), "rpath_id">>},
         then_pc, "CalledProcessError")

MacosInstallNameLibEGL ==
    /\ pc = "macos_id_libEGL"
    /\ \E exit0 \in BOOLEAN :
          install_name_tool(macos_dylib_paths(output_artifact_mode)[1], exit0, "macos_id_libGLESv2")
    /\ UNCHANGED libs
    /\ fusion_frame

\* the last tool of _create_macos_dylibs, and its return
MacosInstallNameLibGLESv2 ==
    /\ pc = "macos_id_libGLESv2"
    /\ \E exit0 \in BOOLEAN :
          install_name_tool(macos_dylib_paths(output_artifact_mode)[2], exit0, "archive")
    /\ libs' = IF pc' = "archive" THEN Bound(macos_dylib_paths(output_artifact_mode)) ELSE libs
    /\ fusion_frame

\* the paths _create_iphoneos_frameworks returns
iphoneos_output_paths(m) ==
    LET output_extension ==
            IF m = iphoneall_universal THEN dot_xcframework ELSE dot_framework
    IN  << out_path(m, libEGL \o output_extension),
           out_path(m, libGLESv2 \o output_extension) >>

\* _create_iphoneos_frameworks for a mode other than iphoneall-universal
CreateIphoneosFrameworks ==
    /\ pc = "create_iphoneos_frameworks"
    /\ output_artifact_mode # iphoneall_universal
    /\ libs' = Bound(iphoneos_output_paths(output_artifact_mode))
    /\ pc' = "archive"
    /\ UNCHANGED <<fs, attr, log, error, tmp>>
    /\ fusion_frame

\* shutil.rmtree(d, ignore_errors=True); os.makedirs(d)
recreate(d, then_pc) ==
    /\ log' = log \o << Call("_create_iphoneos_frameworks", "rmtree", <<d>>, TRUE),
                        Call("_create_iphoneos_frameworks", "makedirs", <<d>>, TRUE) >>
    /\ fs' = makedirs(rmtree(fs, d), d)
    /\ attr' = makedirs_attr(rmtree_attr(attr, d), d)
    /\ pc' = then_pc
    /\ UNCHANGED <<libs, error, tmp>>

IphoneRecreateUniversalFolder ==
    /\ pc = "create_iphoneos_frameworks"
    /\ output_artifact_mode = iphoneall_universal
    /\ recreate(iphone_universal_folder, "iphone_recreate_simulator")
    /\ fusion_frame

IphoneRecreateSimulatorFolder ==
    /\ pc = "iphone_recreate_simulator"
    /\ recreate(iphonesimulator_universal_folder, "iphone_copy_libEGL")
    /\ fusion_frame

\* the bundle of lib in out/<name>
framework(name, lib) == out_path(name, lib \o dot_framework)

\* shutil.copytree(out/iphonesimulator-x64/<lib>.framework,
\*                 out/iphonesimulator-universal/<lib>.framework)
copy_framework(lib, then_pc) ==
    LET src == framework(iphonesimulator_x64, lib)
        dst == framework(iphonesimulator_universal, lib)
    IN  step(Call("_create_iphoneos_frameworks", "copytree", <<src, dst>>,
                  isdir(src) /\ ~exists(dst)),
             copytree(fs, src, dst), copytree_attr(attr, src, dst),
             then_pc,
             IF exists(dst) THEN "FileExistsError" ELSE "FileNotFoundError")

\* os.remove(out/iphonesimulator-universal/<lib>.framework/<lib>)
remove_binary(lib, then_pc) ==
    LET bin == binary_of(framework(iphonesimulator_universal, lib), lib)
    IN  step(Call("_create_iphoneos_frameworks", "remove", <<bin>>,
                  exists(bin) /\ ~isdir(bin)),
             fs \ {file(bin)}, { f \in attr : f[1] # file(bin) },
             then_pc, "FileNotFoundError")

IphoneCopyLibEGL ==
    /\ pc = "iphone_copy_libEGL"
    /\ copy_framework(libEGL, "iphone_remove_libEGL")
    /\ UNCHANGED libs
    /\ fusion_frame

IphoneRemoveLibEGL ==
    /\ pc = "iphone_remove_libEGL"
    /\ remove_binary(libEGL, "iphone_copy_libGLESv2")
    /\ UNCHANGED libs
    /\ fusion_frame

IphoneCopyLibGLESv2 ==
    /\ pc = "iphone_copy_libGLESv2"
    /\ copy_framework(libGLESv2, "iphone_remove_libGLESv2")
    /\ UNCHANGED libs
    /\ fusion_frame

IphoneRemoveLibGLESv2 ==
    /\ pc = "iphone_remove_libGLESv2"
    /\ remove_binary(libGLESv2, "iphone_lipo_libEGL")
    /\ UNCHANGED libs
    /\ fusion_frame

\* a mutant: the merge is written over the binary of the x64 bundle
lipo_simulator_inplace(lib, exit0, then_pc) ==
    lipo("_create_iphoneos_frameworks",
         binary_of(framework(iphonesimulator_x64, lib), lib),
         binary_of(framework(iphonesimulator_arm64, lib), lib),
         binary_of(framework(iphonesimulator_x64, lib), lib), exit0, then_pc)

\* lipo of the two simulator binaries into the copied bundle
lipo_simulator(lib, exit0, then_pc) ==
    lipo("_create_iphoneos_frameworks",
         binary_of(framework(iphonesimulator_x64, lib), lib),
         binary_of(framework(iphonesimulator_arm64, lib), lib),
         binary_of(framework(iphonesimulator_universal, lib), lib), exit0, then_pc)

IphoneLipoLibEGL ==
    /\ pc = "iphone_lipo_libEGL"
    /\ \E exit0 \in BOOLEAN : lipo_simulator(libEGL, exit0, "iphone_lipo_libGLESv2")
    /\ UNCHANGED libs
    /\ fusion_frame

IphoneLipoLibGLESv2 ==
    /\ pc = "iphone_lipo_libGLESv2"
    /\ \E exit0 \in BOOLEAN :
          lipo_simulator(libGLESv2, exit0, "iphone_xcframework_libEGL")
    /\ UNCHANGED libs
    /\ fusion_frame

\* a framework bundle xcodebuild accepts: the directory with its binary
is_bundle(fw, lib) == isdir(fw) /\ exists(binary_of(fw, lib))

\* subprocess.run(["xcodebuild", "-create-xcframework", "-framework", device,
\*                 "-framework", simulator, "-output", output], check=True)
xcodebuild(lib, output, exit0, then_pc) ==
    LET device == framework(iphoneos_arm64, lib)
        simulator == framework(iphonesimulator_universal, lib)
    IN  step(Call("_create_iphoneos_frameworks", "xcodebuild",
                  <<device, simulator, output>>,
                  exit0 /\ is_bundle(device, lib) /\ is_bundle(simulator, lib)),
             makedirs(fs, output) \cup {file(plist_of(output))},
             makedirs_attr(attr, output),
             then_pc, "CalledProcessError")

IphoneXcframeworkLibEGL ==
    /\ pc = "iphone_xcframework_libEGL"
    /\ \E exit0 \in BOOLEAN :
          xcodebuild(libEGL, iphoneos_output_paths(output_artifact_mode)[1], exit0,
                     "iphone_xcframework_libGLESv2")
    /\ UNCHANGED libs
    /\ fusion_frame

\* the last tool of _create_iphoneos_frameworks, and its return
IphoneXcframeworkLibGLESv2 ==
    /\ pc = "iphone_xcframework_libGLESv2"
    /\ \E exit0 \in BOOLEAN :
          xcodebuild(libGLESv2, iphoneos_output_paths(output_artifact_mode)[2], exit0, "archive")
    /\ libs' = IF pc' = "archive" THEN Bound(iphoneos_output_paths(output_artifact_mode)) ELSE libs
    /\ fusion_frame

(***************************************************************************)
(* Packaging: the with block of build.                                     *)
(***************************************************************************)
archive_frame == UNCHANGED <<mode, build_targets, libs, fs, attr, runs, revision, environ, angles>>

\* with tempfile.TemporaryDirectory() as temp_dir: for lib in libs:
TemporaryDirectory ==
    /\ pc = "archive"
    /\ IF libs.bound
       THEN /\ pc' = "copy_lib"
            /\ tmp' = {}
            /\ UNCHANGED error
       ELSE Raise("UnboundLocalError")
    /\ idx' = 1
    /\ UNCHANGED <<log, archives>>
    /\ archive_frame

\* shutil.copytree(lib, temp_dir/basename(lib)) if lib is a directory,
\* else shutil.copy(lib, temp_dir)
CopyLib ==
    /\ pc = "copy_lib"
    /\ LET lib == unstr(libs.paths[idx])
           ok == exists(lib) /\ (isdir(lib) => str(basename(lib)) \notin tmp)
           more == idx < Len(libs.paths)
       IN  /\ log' = Append(log, Call("build", IF isdir(lib) THEN "copytree" ELSE "copy",
                                      <<lib>>, ok))
           /\ IF ok
              THEN /\ tmp' = tmp \cup {str(basename(lib))}
                   /\ idx' = IF more THEN idx + 1 ELSE idx
                   /\ pc' = IF more THEN "copy_lib" ELSE "copy_include"
                   /\ UNCHANGED error
              ELSE /\ Raise(IF exists(lib) THEN "FileExistsError" ELSE "FileNotFoundError")
                   /\ UNCHANGED idx
    /\ UNCHANGED archives
    /\ archive_frame

\* shutil.copytree(include_folder_path, temp_dir/include)
CopyInclude ==
    /\ pc = "copy_include"
    /\ LET include_folder_path == join(<<angle_path, include>>)
           ok == isdir(include_folder_path) /\ str(include) \notin tmp
       IN  /\ log' = Append(log, Call("build", "copytree", <<include_folder_path>>, ok))
           /\ IF ok
              THEN /\ tmp' = tmp \cup {str(include)}
                   /\ pc' = "copy_license"
                   /\ UNCHANGED error
              ELSE Raise(IF str(include) \in tmp THEN "FileExistsError" ELSE "FileNotFoundError")
    /\ UNCHANGED <<idx, archives>>
    /\ archive_frame

\* shutil.copy(license_path, temp_dir)
CopyLicense ==
    /\ pc = "copy_license"
    /\ LET license_path == join(<<angle_path, LICENSE>>)
           ok == exists(license_path)
       IN  /\ log' = Append(log, Call("build", "copy", <<license_path>>, ok))
           /\ IF ok
              THEN /\ tmp' = tmp \cup {str(LICENSE)}
                   /\ pc' = "make_archive"
                   /\ UNCHANGED error
              ELSE Raise("FileNotFoundError")
    /\ UNCHANGED <<idx, archives>>
    /\ archive_frame

\* shutil.make_archive: the directory of the archive is made when missing,
\* then the archive is written; the with block ends
MakeArchive ==
    /\ pc = "make_archive"
    /\ log' = Append(log, Call("build", "make_archive", <<archive_name(output_artifact_mode)>>, TRUE))
    /\ archives' = archives \cup with_parents(file(dirname(archive_name(output_artifact_mode))))
                            \cup {file(archive_name(output_artifact_mode))}
    /\ pc' = "done"
    /\ tmp' = {}
    /\ UNCHANGED <<idx, error>>
    /\ archive_frame

Next ==
    \/ Build
    \/ CloneAngle
    \/ CheckoutRevision
    \/ Bootstrap
    \/ Sync
    \/ GnGen
    \/ AutoninjaBuild
    \/ PatchLibEGL
    \/ PatchLibGLESv2
    \/ CreateMacosDylibs
    \/ MacosRecreateFolder
    \/ MacosLipoLibEGL
    \/ MacosLipoLibGLESv2
    \/ MacosInstallNameLibEGL
    \/ MacosInstallNameLibGLESv2
    \/ CreateIphoneosFrameworks
    \/ IphoneRecreateUniversalFolder
    \/ IphoneRecreateSimulatorFolder
    \/ IphoneCopyLibEGL
    \/ IphoneRemoveLibEGL
    \/ IphoneCopyLibGLESv2
    \/ IphoneRemoveLibGLESv2
    \/ IphoneLipoLibEGL
    \/ IphoneLipoLibGLESv2
    \/ IphoneXcframeworkLibEGL
    \/ IphoneXcframeworkLibGLESv2
    \/ TemporaryDirectory
    \/ CopyLib
    \/ CopyInclude
    \/ CopyLicense
    \/ MakeArchive

Spec == Init /\ [][Next]_vars

(***************************************************************************)
(* _create_iphoneos_frameworks("iphoneall-universal") on its own: the       *)
(* checkout holds the bundles that builds of the simple iOS modes left, any *)
(* of them missing.                                                         *)
(***************************************************************************)
TargetsOfUniversal == {iphoneos_arm64, iphonesimulator_x64, iphonesimulator_arm64}

\* the files of the bundle of lib in out/<name>
bundle_files(name, lib) ==
    { file(framework(name, lib)), file(binary_of(framework(name, lib), lib)),
      file(plist_of(framework(name, lib))) }

\* a bundle of a target is present
present(name, lib) == is_bundle(framework(name, lib), lib)

InitFusion ==
    /\ pc = "create_iphoneos_frameworks"
    /\ mode = str(iphoneall_universal)
    /\ build_targets = _generate_build_targets(iphoneall_universal)
    /\ idx = 3
    /\ libs = Unbound
    /\ \E compiled \in SUBSET (TargetsOfUniversal \X Libraries) :
          /\ fs = with_parents(file(join(<<angle_path, out>>))) \cup checkout_files
                    \cup { file(out_dir(b[1])) : b \in compiled }
                    \cup UNION { bundle_files(b[1], b[2]) : b \in compiled }
          /\ attr = { <<d, "dir">> : d \in with_parents(file(join(<<angle_path, out>>)))
                                            \cup {file(join(<<angle_path, include>>))} }
                    \cup { <<file(out_dir(b[1])), "dir">> : b \in compiled }
                    \cup { <<file(framework(b[1], b[2])), "dir">> : b \in compiled }
                    \cup { <<file(plist_of(framework(b[1], b[2]))), "short_version">> :
                           b \in compiled }
    /\ archives = {}
    /\ tmp = {}
    /\ log = <<>>
    /\ error = ""
    /\ runs = 1
    /\ revision = ""
    /\ environ = [PATH |-> depot_tools_path \o <<":", "/", "b">>]
    /\ angles = <<>>

NextFusion ==
    \/ IphoneRecreateUniversalFolder
    \/ IphoneRecreateSimulatorFolder
    \/ IphoneCopyLibEGL
    \/ IphoneRemoveLibEGL
    \/ IphoneCopyLibGLESv2
    \/ IphoneRemoveLibGLESv2
    \/ IphoneLipoLibEGL
    \/ IphoneLipoLibGLESv2
    \/ IphoneXcframeworkLibEGL
    \/ IphoneXcframeworkLibGLESv2

SpecFusion == InitFusion /\ [][NextFusion]_vars

(***************************************************************************)
(* StorageFolderManager and DepotTools: the methods main calls before      *)
(* ANGLE.build, called in any order on one workspace in one process.       *)
(* pc names the method that returned last, or the statement of             *)
(* ensure_depot_tools that runs next; log is kept from call to call.       *)
(***************************************************************************)
\* os.pathsep
pathsep == ":"

\* str.split(sep) for a one-character sep: the parts of s, after cur
RECURSIVE split(_, _, _)
split(s, sep, cur) ==
    IF s = <<>> THEN <<cur>>
    ELSE IF Head(s) = sep THEN <<cur>> \o split(Tail(s), sep, <<>>)
    ELSE split(Tail(s), sep, Append(cur, Head(s)))

\* os.pathsep.join([a, b])
pathsep_join(a, b) == a \o <<pathsep>> \o b

\* x in a list
in_list(x, list) == \E i \in DOMAIN list : list[i] = x

\* os.rmdir(s) succeeds on an empty directory
rmdir_ok(s) == isdir(s) /\ \A f \in fs : IsPrefix(file(s), f) => f = file(s)

\* no method is running
Returned == {"idle", "ensure_folder", "delete_folder", "ensure_depot_tools", "failed"}

\* a method is called
Called ==
    /\ pc \in Returned
    /\ runs < MaxCalls
    /\ runs' = runs + 1

storage_frame ==
    UNCHANGED <<mode, build_targets, idx, libs, archives, tmp, revision, environ, angles>>

\* a mutant: the folder is made without a test
folder_missing_always == TRUE

\* ensure_folder: if not os.path.exists(self.folder_path)
folder_missing == ~exists(folder_path)

\* StorageFolderManager.ensure_folder; os.makedirs raises if the path exists
EnsureFolder ==
    /\ Called
    /\ IF folder_missing
       THEN LET ok == ~exists(folder_path)
            IN  /\ log' = log \o << Call("ensure_folder", "exists", <<folder_path>>, TRUE),
                                   Call("ensure_folder", "makedirs", <<folder_path>>, ok) >>
                /\ fs' = IF ok THEN makedirs(fs, folder_path) ELSE fs
                /\ attr' = IF ok THEN makedirs_attr(attr, folder_path) ELSE attr
                /\ pc' = IF ok THEN "ensure_folder" ELSE "failed"
                /\ error' = IF ok THEN "" ELSE "FileExistsError"
       ELSE /\ log' = Append(log, Call("ensure_folder", "exists", <<folder_path>>, TRUE))
            /\ pc' = "ensure_folder"
            /\ error' = ""
            /\ UNCHANGED <<fs, attr>>
    /\ storage_frame

\* os.rmdir(self.folder_path): the directory is removed if the call succeeded
delete_folder_rmdir(ok) ==
    /\ fs' = IF ok THEN fs \ {file(folder_path)} ELSE fs
    /\ attr' = IF ok THEN { a \in attr : a[1] # file(folder_path) } ELSE attr

\* StorageFolderManager.delete_folder
DeleteFolder ==
    /\ Called
    /\ IF exists(folder_path)
       THEN LET ok == rmdir_ok(folder_path)
            IN  /\ log' = log \o << Call("delete_folder", "exists", <<folder_path>>, TRUE),
                                   Call("delete_folder", "rmdir", <<folder_path>>, ok) >>
                /\ delete_folder_rmdir(ok)
                /\ pc' = IF ok THEN "delete_folder" ELSE "failed"
                /\ error' = IF ok THEN "" ELSE "OSError"
       ELSE /\ log' = Append(log, Call("delete_folder", "exists", <<folder_path>>, TRUE))
            /\ pc' = "delete_folder"
            /\ error' = ""
            /\ UNCHANGED <<fs, attr>>
    /\ storage_frame

\* ensure_depot_tools: if not os.path.exists(self.depot_tools_path)
depot_clone_needed == ~exists(depot_tools_path)

\* DepotTools.ensure_depot_tools is called
EnsureDepotTools ==
    /\ Called
    /\ log' = Append(log, Call("ensure_depot_tools", "exists", <<depot_tools_path>>, TRUE))
    /\ pc' = IF depot_clone_needed THEN "depot_clone" ELSE "depot_path"
    /\ error' = ""
    /\ UNCHANGED <<fs, attr>>
    /\ storage_frame

\* the files of a clone of depot_tools
depot_tools_files ==
    with_parents(file(depot_tools_path)) \cup {file(join(<<depot_tools_path, gclient>>))}

\* DepotTools._clone_darwin_linux: git clone <url> depot_tools_path
CloneDarwinLinux ==
    /\ pc = "depot_clone"
    /\ \E exit0 \in BOOLEAN :
          LET ok == exit0 /\ ~exists(depot_tools_path)
          IN  /\ log' = Append(log, Call("_clone_darwin_linux", "git clone",
                                         <<depot_tools_path>>, ok))
              /\ fs' = IF ok THEN fs \cup depot_tools_files ELSE fs
              /\ attr' = IF ok THEN makedirs_attr(attr, depot_tools_path) ELSE attr
              /\ checked(ok, "depot_path", "CalledProcessError")
    /\ UNCHANGED runs
    /\ storage_frame

\* a mutant: the test of _path_content is missing
path_with_depot_tools_always(content) ==
    [PATH |-> pathsep_join(depot_tools_path, environ["PATH"])]

\* os.environ after _ensure_depot_tools_is_in_path, PATH being set
path_with_depot_tools(content) ==
    IF ~in_list(depot_tools_path, content)
    THEN [PATH |-> pathsep_join(depot_tools_path, environ["PATH"])]
    ELSE environ

\* DepotTools._ensure_depot_tools_is_in_path, then ensure_depot_tools returns
EnsureDepotToolsIsInPath ==
    /\ pc = "depot_path"
    /\ IF "PATH" \in DOMAIN environ
       THEN /\ environ' = path_with_depot_tools(split(environ["PATH"], pathsep, <<>>))
            /\ pc' = "ensure_depot_tools"
            /\ UNCHANGED <<error, tmp>>
       ELSE /\ Raise("KeyError")
            /\ UNCHANGED environ
    /\ UNCHANGED <<mode, build_targets, idx, libs, fs, attr, archives, log, runs,
                   revision, angles>>

\* the values of PATH the process can start with, and PATH not set
InitialEnviron ==
    { [PATH |-> v] : v \in { <<>>, <<"/", "b">>,
                              <<"/", "b", ":">> \o depot_tools_path,
                              depot_tools_path \o <<"/", ":", "/", "b">> } }
    \cup { <<>> }

\* the workspace is absent, or holds what earlier processes left in it
InitialWorkspaces ==
    { {}, with_parents(file(folder_path)),
      with_parents(file(folder_path)) \cup checkout_files,
      with_parents(file(folder_path)) \cup depot_tools_files }

InitStorage ==
    /\ pc = "idle"
    /\ mode = ""
    /\ build_targets = <<>>
    /\ idx = 0
    /\ libs = Unbound
    /\ fs \in InitialWorkspaces
    /\ attr = { <<d, "dir">> : d \in fs \ { file(join(<<angle_path, LICENSE>>)),
                                           file(join(<<depot_tools_path, gclient>>)) } }
    /\ archives = {}
    /\ tmp = {}
    /\ log = <<>>
    /\ error = ""
    /\ runs = 0
    /\ revision = ""
    /\ environ \in InitialEnviron
    /\ angles = <<>>

NextStorage ==
    \/ EnsureFolder
    \/ DeleteFolder
    \/ EnsureDepotTools
    \/ CloneDarwinLinux
    \/ EnsureDepotToolsIsInPath

SpecStorage == InitStorage /\ [][NextStorage]_vars

(***************************************************************************)
(* Two ANGLE objects on one storage folder, each of any branch, and the    *)
(* angle_path of each.                                                     *)
(***************************************************************************)
\* the characters of a branch name
BranchChars == {"a", ".", "/", "_"}

\* the sequences of BranchChars of length n
RECURSIVE BranchesOfLen(_)
BranchesOfLen(n) ==
    IF n = 0 THEN {<<>>}
    ELSE { Append(b, c) : b \in BranchesOfLen(n - 1), c \in BranchChars }

Branches == UNION { BranchesOfLen(n) : n \in 1..MaxBranchLen }

\* ANGLE(branch=b, ...): angle_path not read yet
ANGLE(b) == [branch |-> text(b), angle_path |-> ""]

InitBranch ==
    /\ pc = "idle"
    /\ mode = ""
    /\ build_targets = <<>>
    /\ idx = 0
    /\ libs = Unbound
    /\ fs = {}
    /\ attr = {}
    /\ archives = {}
    /\ tmp = {}
    /\ log = <<>>
    /\ error = ""
    /\ runs = 0
    /\ revision = ""
    /\ environ = [PATH |-> depot_tools_path \o <<":", "/", "b">>]
    /\ \E a, b \in Branches : angles = <<ANGLE(a), ANGLE(b)>>

\* the property angle_path of an object is read
AnglePath ==
    /\ \E i \in DOMAIN angles :
          /\ angles[i].angle_path = ""
          /\ \E b \in Branches :
                /\ text(b) = angles[i].branch
                /\ angles' = [angles EXCEPT ![i].angle_path = text(angle_path_of(b))]
    /\ UNCHANGED <<pc, mode, build_targets, idx, libs, fs, attr, archives, tmp, log,
                   error, runs, revision, environ>>

NextBranch == AnglePath

SpecBranch == InitBranch /\ [][NextBranch]_vars

(***************************************************************************)
(* What the log and the state say about the running build.                 *)
(***************************************************************************)
arm64 == <<"a", "r", "m", "6", "4">>
x64 == <<"x", "6", "4">>
iphonesimulator == <<"i", "p", "h", "o", "n", "e", "s", "i", "m", "u", "l", "a", "t", "o", "r">>

endswith(s, suffix) ==
    Len(s) >= Len(suffix) /\ SubSeq(s, Len(s) - Len(suffix) + 1, Len(s)) = suffix

\* gclient sync succeeded, so build_targets holds the plan of this build
Planned == \E i \in DOMAIN log : log[i].op = "gclient sync" /\ log[i].ok

\* the calls of a program in this build, in their order
calls(op) == SelectSeq(log, LAMBDA e : e.op = op)

\* the first path argument of each call of a sequence
first_args(cs) == [i \in DOMAIN cs |-> cs[i].args[1]]

\* the directories out/<name> of the plan, in the order of the plan
planned_dirs == [i \in DOMAIN build_targets |-> str(out_dir(name_of(build_targets[i])))]

FusionMethods == {"_create_macos_dylibs", "_create_iphoneos_frameworks"}

\* the programs build runs as subprocesses
Tools == {"git clone", "git checkout", "python", "gclient sync", "gn gen",
          "autoninja", "plutil", "lipo", "install_name_tool", "xcodebuild"}

\* the statements of the with block of build
PackagingPcs == {"copy_lib", "copy_include", "copy_license", "make_archive", "done"}

\* the two for loops of build have ended
LoopsEnded ==
    /\ Planned
    /\ \/ pc \notin {"gn_gen", "autoninja", "patch_libEGL", "patch_libGLESv2", "failed"}
       \/ pc = "failed" /\ error = "UnboundLocalError"
       \/ pc = "failed" /\ log[Len(log)].by \in FusionMethods \cup {"build"}

\* the simple modes a composite mode is made of
Constituents(m) ==
    IF m = macos_universal THEN {macos_arm64, macos_x64}
    ELSE IF m = iphoneall_universal
         THEN {iphoneos_arm64, iphonesimulator_x64, iphonesimulator_arm64}
    ELSE {}

(***************************************************************************)
(* The claims.                                                             *)
(***************************************************************************)

\* C1: for each of the five simple modes the plan of a build is one target,
\* and the name of that target is the mode.
C1_SimpleModePlansOneTarget ==
    (Planned /\ output_artifact_mode \in SimpleModes) =>
        /\ Len(build_targets) = 1
        /\ build_targets[1].name = mode

C1_Witness ==
    /\ Planned
    /\ output_artifact_mode = iphonesimulator_arm64
    /\ Len(build_targets) = 1
    /\ build_targets[1].name = "iphonesimulator-arm64"

\* C2: the plan of a composite mode is the plans of its simple modes, one
\* after the other in a fixed order and each once: macos-arm64 then macos-x64
\* for macos-universal, iphoneos-arm64 then iphonesimulator-x64 then
\* iphonesimulator-arm64 for iphoneall-universal.
C2_CompositePlanIsConcatenation ==
    Planned =>
        /\ output_artifact_mode = macos_universal =>
              /\ build_targets = _generate_build_targets(macos_arm64)
                                 \o _generate_build_targets(macos_x64)
              /\ Len(build_targets) = 2
              /\ build_targets[1].name = "macos-arm64"
              /\ build_targets[2].name = "macos-x64"
        /\ output_artifact_mode = iphoneall_universal =>
              /\ build_targets = _generate_build_targets(iphoneos_arm64)
                                 \o _generate_build_targets(iphonesimulator_x64)
                                 \o _generate_build_targets(iphonesimulator_arm64)
              /\ Len(build_targets) = 3
              /\ build_targets[1].name = "iphoneos-arm64"
              /\ build_targets[2].name = "iphonesimulator-x64"
              /\ build_targets[3].name = "iphonesimulator-arm64"

C2_Witness ==
    /\ Planned
    /\ output_artifact_mode = iphoneall_universal
    /\ Len(build_targets) = 3
    /\ pc = "gn_gen"

\* C3: gn gen and autoninja run for the targets of the plan and no other, in
\* the order of the plan and at most once each; no autoninja runs before
\* every gn gen has succeeded; once the loops have ended each has run exactly
\* once for each target.
C3_GenerateThenCompileInPlanOrder ==
    LET G == calls("gn gen")
        N == calls("autoninja")
    IN  /\ IsPrefix(first_args(G), planned_dirs)
        /\ IsPrefix(first_args(N), planned_dirs)
        /\ N # <<>> =>
              /\ first_args(G) = planned_dirs
              /\ \A i \in DOMAIN G : G[i].ok
              /\ \A i, j \in DOMAIN log :
                    (log[i].op = "gn gen" /\ log[j].op = "autoninja") => i < j
        /\ LoopsEnded =>
              /\ first_args(G) = planned_dirs
              /\ first_args(N) = planned_dirs
              /\ \A i \in DOMAIN N : N[i].ok

C3_Witness ==
    /\ pc = "done"
    /\ output_artifact_mode = iphoneall_universal
    /\ Len(calls("gn gen")) = 3
    /\ Len(calls("autoninja")) = 3

\* C4: in a build of a composite mode every call made by fusion comes after
\* a successful autoninja of every constituent target, and packaging runs
\* only when fusion has returned its two paths, after its last tool succeeded.
C4_FusionAfterAllCompiles ==
    output_artifact_mode \in {macos_universal, iphoneall_universal} =>
        /\ \A i \in DOMAIN log :
              log[i].by \in FusionMethods =>
                 \A t \in Constituents(output_artifact_mode) :
                    \E j \in 1..(i - 1) :
                       /\ log[j].op = "autoninja"
                       /\ log[j].args = <<str(out_dir(t))>>
                       /\ log[j].ok
        /\ (pc \in PackagingPcs \/ \E i \in DOMAIN log : log[i].by = "build") =>
              /\ libs.bound
              /\ Len(libs.paths) = 2
              /\ \E i \in DOMAIN log :
                    /\ log[i].op = (IF output_artifact_mode = macos_universal
                                    THEN "install_name_tool" ELSE "xcodebuild")
                    /\ log[i].args[Len(log[i].args)] = libs.paths[2]
                    /\ log[i].ok
                    /\ \A j \in DOMAIN log : log[j].by = "build" => i < j

C4_Witness ==
    /\ output_artifact_mode = macos_universal
    /\ pc = "copy_lib"
    /\ \E i \in DOMAIN log : log[i].op = "lipo" /\ log[i].ok

IosTargets == {iphoneos_arm64, iphonesimulator_x64, iphonesimulator_arm64}

\* the log entry of a successful or failed plutil on the bundle of lib in out/<t>
is_patch(e, t, lib) ==
    /\ e.op = "plutil"
    /\ e.by = "_patch_frameworks_plist"
    /\ e.args = <<str(plist_of(framework(t, lib)))>>

\* CFBundleShortVersionString is set in the Info.plist of bundle fw
patched(fw) == has(attr, plist_of(fw), "short_version")

\* fusion of iphoneall-universal is running, or has returned in this build
IphoneFusionPcs ==
    {"create_iphoneos_frameworks", "iphone_recreate_simulator", "iphone_copy_libEGL",
     "iphone_remove_libEGL", "iphone_copy_libGLESv2", "iphone_remove_libGLESv2",
     "iphone_lipo_libEGL", "iphone_lipo_libGLESv2", "iphone_xcframework_libEGL",
     "iphone_xcframework_libGLESv2"}

\* C5: the Info.plist patch runs for the two bundles of an iOS target right
\* after the autoninja of that target, libEGL then libGLESv2, and nowhere
\* else: once for each bundle of each target of the plan when the loops have
\* ended, never for a macOS target and never in fusion; the bundles fusion
\* reads, and the simulator-universal bundles it makes of them, are patched.
C5_PatchOncePerBundleAfterCompile ==
    /\ \A i \in DOMAIN log :
          (log[i].op = "autoninja" /\ log[i].ok) =>
             \A t \in IosTargets :
                log[i].args = <<str(out_dir(t))>> =>
                   /\ i + 1 <= Len(log) => is_patch(log[i + 1], t, libEGL)
                   /\ (i + 2 <= Len(log) /\ log[i + 1].ok) =>
                         is_patch(log[i + 2], t, libGLESv2)
                   /\ i = Len(log) => pc = "patch_libEGL"
    /\ \A i \in DOMAIN log :
          log[i].op = "plutil" =>
             \E t \in IosTargets :
                \/ /\ is_patch(log[i], t, libEGL)
                   /\ i > 1
                   /\ log[i - 1].op = "autoninja"
                   /\ log[i - 1].args = <<str(out_dir(t))>>
                   /\ log[i - 1].ok
                \/ /\ is_patch(log[i], t, libGLESv2)
                   /\ i > 2
                   /\ is_patch(log[i - 1], t, libEGL)
                   /\ log[i - 1].ok
                   /\ log[i - 2].op = "autoninja"
    /\ \A i, j \in DOMAIN log :
          (log[i].op = "plutil" /\ log[j].op = "plutil" /\ i # j) =>
             log[i].args # log[j].args
    /\ LoopsEnded =>
          \A k \in DOMAIN build_targets :
             LET t == name_of(build_targets[k])
             IN  IF startswith(t, iphone)
                 THEN \A lib \in Libraries :
                         \E i \in DOMAIN log : is_patch(log[i], t, lib) /\ log[i].ok
                 ELSE \A i \in DOMAIN log :
                         log[i].op = "plutil" => ~startswith(output_artifact_mode, macos)
    /\ startswith(output_artifact_mode, macos) => calls("plutil") = <<>>
    /\ (output_artifact_mode = iphoneall_universal /\ pc \in IphoneFusionPcs \cup PackagingPcs) =>
          \A t \in IosTargets, lib \in Libraries : patched(framework(t, lib))
    /\ \A lib \in Libraries :
          exists(plist_of(framework(iphonesimulator_universal, lib))) =>
             patched(framework(iphonesimulator_universal, lib))

C5_Witness ==
    /\ output_artifact_mode = iphoneall_universal
    /\ pc = "iphone_xcframework_libEGL"
    /\ Len(calls("plutil")) = 6
    /\ patched(framework(iphonesimulator_universal, libGLESv2))

\* C6, as claimed: when a bundle of one of the three targets is missing,
\* fusion of iphoneall-universal merges no simulator-universal bundle and
\* makes no xcframework: it does not fuse some of the pieces.
AnyBundleMissing ==
    \E t \in IosTargets, lib \in Libraries : ~present(t, lib)

C7_ToolFailureEndsBuild ==
    /\ [](\A i \in DOMAIN log :
             (log[i].op \in Tools /\ ~log[i].ok) =>
                /\ i = Len(log)
                /\ pc = "failed"
                /\ error = "CalledProcessError"
                /\ \A j \in DOMAIN log : log[j].op # "make_archive")
    /\ [][ /\ pc = "failed" => (pc' \in {"clone", "checkout"} /\ runs' = runs + 1
                                /\ archives' = archives)
           /\ archives' # archives =>
                 (pc = "make_archive" /\ \A i \in DOMAIN log : log[i].ok) ]_vars

C7_Witness ==
    /\ pc = "failed"
    /\ error = "CalledProcessError"
    /\ log[Len(log)].op = "xcodebuild"
    /\ ~log[Len(log)].ok
    /\ archives = {}

\* C8, as claimed: a build of a mode outside the enumeration plans nothing,
\* runs neither gn gen nor autoninja, and ends in an error without an archive.
C8_UnknownModeWritesNoArchive ==
    (output_artifact_mode # <<>> /\ output_artifact_mode \notin EnumeratedModes) =>
        /\ build_targets = <<>>
        /\ calls("gn gen") = <<>>
        /\ calls("autoninja") = <<>>
        /\ pc # "done"
        /\ calls("make_archive") = <<>>

\* a step that is a call of build, whose first statement is clone_and_checkout
BuildCalled == runs' = runs + 1

\* C11: clone_and_checkout runs git clone exactly when angle_path does not
\* exist and git checkout exactly when a revision was given, each at most
\* once and the clone first; a call on a workspace that holds the checkout
\* clones nothing, and no step of a build removes a file of the checkout.
C11_CloneIfAbsentCheckoutIfRequested ==
    /\ [](  /\ \A i \in DOMAIN log :
                /\ log[i].op = "git clone" =>
                      (i = 1 /\ log[i].by = "_clone_angle"
                       /\ log[i].args = <<str(angle_path)>>)
                /\ log[i].op = "git checkout" =>
                      (/\ revision # ""
                       /\ log[i].by = "_checkout_revision"
                       /\ i <= 2
                       /\ (i = 2 => (log[1].op = "git clone" /\ log[1].ok)))
            /\ pc = "clone" => (log = <<>> /\ ~exists(angle_path))
            /\ pc = "checkout" =>
                  (/\ exists(angle_path)
                   /\ calls("git checkout") = <<>>
                   /\ \A i \in DOMAIN log : log[i].op = "git clone" /\ log[i].ok)
            /\ pc = "bootstrap" =>
                  (/\ exists(angle_path)
                   /\ Len(calls("git checkout")) = (IF revision # "" THEN 1 ELSE 0)
                   /\ \A i \in DOMAIN log : log[i].ok) )
    /\ [][ /\ BuildCalled =>
                 (/\ pc' = "clone" <=> ~exists(angle_path)
                  /\ pc' = "checkout" <=> exists(angle_path)
                  /\ log' = <<>>)
           /\ (pc = "clone" /\ pc' # "failed") =>
                 (/\ pc' = "checkout"
                  /\ Len(calls("git clone")') = 1
                  /\ exists(angle_path)')
           /\ (pc # "clone" /\ ~BuildCalled) => calls("git clone")' = calls("git clone")
           /\ exists(angle_path) =>
                 (/\ exists(angle_path)'
                  /\ (checkout_files \subseteq fs => checkout_files \subseteq fs')) ]_vars

\* a second build has passed clone_and_checkout without a clone, with a revision
C11_Witness ==
    /\ runs = 2
    /\ pc = "bootstrap"
    /\ revision # ""
    /\ Len(log) = 1
    /\ log[1].op = "git checkout"
    /\ log[1].ok
    /\ checkout_files \subseteq fs

\* os.environ["PATH"].split(os.pathsep), no entry when PATH is not set
PathEntries ==
    IF "PATH" \in DOMAIN environ THEN split(environ["PATH"], pathsep, <<>>) ELSE <<>>

\* the number of times x is in a list
count(x, list) == Cardinality({ i \in DOMAIN list : list[i] = x })

\* C12: ensure_depot_tools runs git clone exactly when depot_tools_path does
\* not exist; when it has returned, depot_tools_path exists and is an entry
\* of PATH; a call that finds it in PATH leaves os.environ unchanged, a call
\* that does not adds it once; nothing else changes PATH or clones.
C12_EnsureDepotToolsIdempotent ==
    /\ [](  /\ \A i \in DOMAIN log :
                log[i].op = "git clone" =>
                   (/\ log[i].by = "_clone_darwin_linux"
                    /\ i > 1
                    /\ log[i - 1].by = "ensure_depot_tools"
                    /\ log[i - 1].op = "exists")
            /\ pc = "depot_clone" => ~exists(depot_tools_path)
            /\ pc = "depot_path" => exists(depot_tools_path)
            /\ pc = "ensure_depot_tools" =>
                  (/\ exists(depot_tools_path)
                   /\ in_list(depot_tools_path, PathEntries)) )
    /\ [][ /\ (runs' = runs + 1 /\ pc' \in {"depot_clone", "depot_path"}) =>
                 (pc' = "depot_clone" <=> ~exists(depot_tools_path))
           /\ (pc = "depot_path" /\ pc' = "ensure_depot_tools") =>
                 (/\ in_list(depot_tools_path, PathEntries) => environ' = environ
                  /\ count(depot_tools_path, PathEntries') =
                        (IF in_list(depot_tools_path, PathEntries)
                         THEN count(depot_tools_path, PathEntries) ELSE 1)
                  /\ fs' = fs)
           /\ environ' # environ => pc = "depot_path"
           /\ calls("git clone")' # calls("git clone") =>
                 (pc = "depot_clone" /\ ~exists(depot_tools_path)) ]_vars

\* ensure_depot_tools has returned twice: the first call cloned and added the
\* entry, the second did neither
C12_Witness ==
    /\ pc = "ensure_depot_tools"
    /\ Len(log) = 3
    /\ log[1].by = "ensure_depot_tools"
    /\ log[2].op = "git clone"
    /\ log[2].ok
    /\ log[3].by = "ensure_depot_tools"
    /\ count(depot_tools_path, PathEntries) = 1
    /\ Len(PathEntries) = 2

\* a step in which a method ran: it logged a call
Ran(method) == log' # log /\ log'[Len(log')].by = method

\* C13: every call of ensure_folder returns without an error with the folder
\* existing, and a call that finds the folder changes no file and no
\* directory.
C13_EnsureFolderIdempotent ==
    /\ [](pc = "ensure_folder" => (exists(folder_path) /\ isdir(folder_path)))
    /\ [][ Ran("ensure_folder") =>
              (/\ pc' = "ensure_folder"
               /\ error' = ""
               /\ exists(folder_path)'
               /\ \A i \in DOMAIN log' : log'[i].by = "ensure_folder" => log'[i].ok
               /\ exists(folder_path) =>
                     (fs' = fs /\ attr' = attr /\ log'[Len(log')].op = "exists")) ]_vars

\* ensure_folder has returned twice in a row: the first call made the folder
C13_Witness ==
    /\ pc = "ensure_folder"
    /\ Len(log) = 3
    /\ log[2].op = "makedirs"
    /\ log[2].by = "ensure_folder"
    /\ log[3].op = "exists"
    /\ log[3].by = "ensure_folder"
    /\ exists(folder_path)

\* C14, as claimed: when delete_folder has run, it has returned without an
\* error and the folder does not exist, whatever the folder held.
C14_DeleteFolderRemovesFolder ==
    \A i \in DOMAIN log :
        (log[i].by = "delete_folder" /\ i = Len(log)) =>
            (/\ pc = "delete_folder"
             /\ error = ""
             /\ ~exists(folder_path))

\* C15, as claimed: the angle_path of an object is folder_path/angle-<name>
\* with the branch's "." and "/" substituted, and the objects of two
\* different branches have different angle_paths.
C15_BranchPathInjective ==
    \A i, j \in DOMAIN angles :
        (angles[i].angle_path # "" /\ angles[j].angle_path # "") =>
            /\ \E b \in Branches :
                  /\ text(b) = angles[i].branch
                  /\ angles[i].angle_path =
                        text(folder_path) \o "/angle-" \o text(underlined(b))
            /\ angles[i].branch # angles[j].branch =>
                  angles[i].angle_path # angles[j].angle_path

\* the calls _create_iphoneos_frameworks has made in this build
fusion_log == SelectSeq(log, LAMBDA e : e.by = "_create_iphoneos_frameworks")

\* a call as the log holds it, whatever its outcome
call_of(e) == [op |-> e.op, args |-> e.args]

expected(op, args) == [op |-> op, args |-> [i \in DOMAIN args |-> str(args[i])]]

\* steps (b), (c) and (d) of the claim for a library
copy_of(lib) ==
    expected("copytree", <<framework(iphonesimulator_x64, lib),
                           framework(iphonesimulator_universal, lib)>>)

remove_of(lib) ==
    expected("remove", <<binary_of(framework(iphonesimulator_universal, lib), lib)>>)

merge_of(lib) ==
    expected("lipo", <<binary_of(framework(iphonesimulator_x64, lib), lib),
                       binary_of(framework(iphonesimulator_arm64, lib), lib),
                       binary_of(framework(iphonesimulator_universal, lib), lib)>>)

assemble_of(lib) ==
    expected("xcodebuild",
             <<framework(iphoneos_arm64, lib), framework(iphonesimulator_universal, lib),
               out_path(iphoneall_universal, lib \o dot_xcframework)>>)

\* the order of the claim
IphoneFusionOrder ==
    << expected("rmtree", <<iphone_universal_folder>>),
       expected("makedirs", <<iphone_universal_folder>>),
       expected("rmtree", <<iphonesimulator_universal_folder>>),
       expected("makedirs", <<iphonesimulator_universal_folder>>),
       copy_of(libEGL), remove_of(libEGL), copy_of(libGLESv2), remove_of(libGLESv2),
       merge_of(libEGL), merge_of(libGLESv2),
       assemble_of(libEGL), assemble_of(libGLESv2) >>

\* the files of the compiled bundles of the targets of iphoneall-universal
compiled_bundle_files ==
    UNION { bundle_files(t, lib) : t \in TargetsOfUniversal, lib \in Libraries }

\* C16: the calls of fusion for iphoneall-universal are a prefix of: recreate
\* the two scratch directories; copy the simulator-x64 bundle and remove the
\* copied binary, libEGL then libGLESv2; merge the two simulator binaries
\* into the copied bundle, libEGL then libGLESv2; assemble the xcframework,
\* libEGL then libGLESv2; and every call but the last has succeeded. When
\* xcodebuild is called for a library, the simulator-universal bundle of
\* that library holds its merged binary. No step of fusion removes or
\* changes a file of a compiled per-architecture bundle.
C16_IphoneFusionOrder ==
    /\ [](  /\ mode # str(iphoneall_universal) => fusion_log = <<>>
            /\ Len(fusion_log) <= Len(IphoneFusionOrder)
            /\ \A i \in DOMAIN fusion_log :
                  /\ call_of(fusion_log[i]) = IphoneFusionOrder[i]
                  /\ (i < Len(fusion_log)) => fusion_log[i].ok
            /\ \A i \in DOMAIN fusion_log : \A lib \in Libraries :
                  (call_of(fusion_log[i]) = assemble_of(lib)) =>
                      /\ exists(binary_of(framework(iphonesimulator_universal, lib), lib))
                      /\ has(attr, binary_of(framework(iphonesimulator_universal, lib), lib),
                             "fat"))
    /\ [][ (pc \in IphoneFusionPcs) =>
               /\ (fs \cap compiled_bundle_files) \subseteq fs'
               /\ { a \in attr : a[1] \in compiled_bundle_files }
                    = { a \in attr' : a[1] \in compiled_bundle_files } ]_vars

\* the twelve calls of fusion were made and succeeded, on a workspace where
\* an earlier build had left the scratch directories
C16_Witness ==
    /\ mode = str(iphoneall_universal)
    /\ runs = 2
    /\ Len(fusion_log) = Len(IphoneFusionOrder)
    /\ fusion_log[Len(fusion_log)].ok
    /\ libs.bound

\* the calls _create_macos_dylibs has made in this build
macos_log == SelectSeq(log, LAMBDA e : e.by = "_create_macos_dylibs")

\* the merged binary of a library
merged(lib) == out_path(macos_universal, lib \o dot_dylib)

macos_merge_of(lib) ==
    expected("lipo", <<out_path(macos_x64, lib \o dot_dylib),
                       out_path(macos_arm64, lib \o dot_dylib), merged(lib)>>)

\* the order of the claim after the directory is deleted
MacosFusionOrder ==
    << expected("makedirs", <<out_dir(macos_universal)>>),
       macos_merge_of(libEGL), macos_merge_of(libGLESv2),
       expected("install_name_tool", <<merged(libEGL)>>),
       expected("install_name_tool", <<merged(libGLESv2)>>) >>

\* the calls that follow the deletion of the directory, if it was deleted
after_rmtree(cs) ==
    IF cs # <<>> /\ call_of(cs[1]) = expected("rmtree", <<out_dir(macos_universal)>>)
    THEN Tail(cs) ELSE cs

\* C17: the calls of fusion for macos-universal are a prefix of: rmtree of
\* out/macos-universal exactly when it exists, makedirs of it, lipo of the
\* x64 and arm64 libEGL.dylib into it, the same for libGLESv2.dylib,
\* install_name_tool on the merged libEGL.dylib, then on the merged
\* libGLESv2.dylib; every call but the last has succeeded. No binary of
\* macos-x64 or macos-arm64 ever has its identifier rewritten, and after a
\* failed lipo fusion makes no other call and build has no artifact list.
C17_MacosFusionOrder ==
    /\ [](  /\ mode # str(macos_universal) => macos_log = <<>>
            /\ Len(after_rmtree(macos_log)) <= Len(MacosFusionOrder)
            /\ \A i \in DOMAIN after_rmtree(macos_log) :
                  call_of(after_rmtree(macos_log)[i]) = MacosFusionOrder[i]
            /\ \A i \in DOMAIN macos_log :
                  /\ (i < Len(macos_log)) => macos_log[i].ok
                  /\ (macos_log[i].op = "lipo" /\ ~macos_log[i].ok) =>
                        /\ i = Len(macos_log)
                        /\ log[Len(log)] = macos_log[i]
                        /\ pc = "failed"
                        /\ ~libs.bound
            /\ \A t \in {macos_x64, macos_arm64} : \A lib \in Libraries :
                  ~has(attr, out_path(t, lib \o dot_dylib), "rpath_id"))
    /\ [][ (pc = "create_macos_dylibs" /\ mode = str(macos_universal)) =>
               /\ exists(out_dir(macos_universal))
                    <=> (call_of(log'[Len(log) + 1])
                            = expected("rmtree", <<out_dir(macos_universal)>>))
               /\ isdir(out_dir(macos_universal))'
               /\ \A f \in fs' : IsPrefix(file(out_dir(macos_universal)), f)
                                      => f = file(out_dir(macos_universal)) ]_vars

\* fusion for macos-universal deleted the directory an earlier build left,
\* made its five other calls and returned the list
C17_Witness ==
    /\ mode = str(macos_universal)
    /\ Len(macos_log) = Len(MacosFusionOrder) + 1
    /\ macos_log[1].op = "rmtree"
    /\ macos_log[Len(macos_log)].ok
    /\ has(attr, merged(libEGL), "rpath_id")
    /\ has(attr, merged(libGLESv2), "rpath_id")
    /\ libs.bound

\* the xcframework of a library
xcframework(lib) == out_path(iphoneall_universal, lib \o dot_xcframework)

\* C18, as claimed: when fusion of a composite mode is about to write its
\* final artifacts, nothing is at their paths: the fat dylibs of
\* out/macos-universal before the two lipo runs, and libEGL.xcframework and
\* libGLESv2.xcframework before the two xcodebuild runs, also in a second
\* build of the mode on the same workspace.
C18_FinalArtifactsWrittenToEmptyDirectory ==
    /\ (mode = str(macos_universal) /\ pc = "macos_lipo_libEGL") =>
           \A lib \in Libraries : ~exists(merged(lib))
    /\ (mode = str(macos_universal) /\ pc = "macos_lipo_libGLESv2") =>
           ~exists(merged(libGLESv2))
    /\ (mode = str(iphoneall_universal) /\ pc = "iphone_xcframework_libEGL") =>
           \A lib \in Libraries : ~exists(xcframework(lib))
    /\ (mode = str(iphoneall_universal) /\ pc = "iphone_xcframework_libGLESv2") =>
           ~exists(xcframework(libGLESv2))

\* the entries of a list of generator arguments with a key
entries(gn_args, key) == { i \in DOMAIN gn_args : gn_args[i].key = key }

in_args(gn_args, a) == \E i \in DOMAIN gn_args : gn_args[i] = a

\* C9: the generator arguments of every target of a plan hold
\* is_component_build=false and is_debug=false, one target_cpu and one
\* target_os that agree with the name of the target,
\* ios_enable_code_signing=false exactly for the iOS targets and
\* target_environment="simulator" exactly for the simulator targets.
C9_GeneratorArgumentsMatchName ==
    Planned =>
        \A k \in DOMAIN build_targets :
            LET name == name_of(build_targets[k])
                gn_args == build_targets[k].gn_args
            IN  /\ in_args(gn_args, Arg("is_component_build", "false"))
                /\ in_args(gn_args, Arg("is_debug", "false"))
                /\ Cardinality(entries(gn_args, "target_cpu")) = 1
                /\ Cardinality(entries(gn_args, "target_os")) = 1
                /\ endswith(name, arm64) \/ endswith(name, x64)
                /\ in_args(gn_args, Arg("target_cpu",
                       IF endswith(name, arm64) THEN "\"arm64\"" ELSE "\"x64\""))
                /\ startswith(name, macos) \/ startswith(name, iphone)
                /\ in_args(gn_args, Arg("target_os",
                       IF startswith(name, macos) THEN "\"mac\"" ELSE "\"ios\""))
                /\ Cardinality(entries(gn_args, "ios_enable_code_signing")) =
                       (IF startswith(name, iphone) THEN 1 ELSE 0)
                /\ in_args(gn_args, Arg("ios_enable_code_signing", "false"))
                       <=> startswith(name, iphone)
                /\ Cardinality(entries(gn_args, "target_environment")) =
                       (IF startswith(name, iphonesimulator) THEN 1 ELSE 0)
                /\ in_args(gn_args, Arg("target_environment", "\"simulator\""))
                       <=> startswith(name, iphonesimulator)

C9_Witness ==
    /\ Planned
    /\ output_artifact_mode = iphoneall_universal
    /\ Len(build_targets) = 3
    /\ pc = "autoninja"

\* C10: fusion of a simple mode is one step that calls nothing, changes no
\* file and no directory, and returns the two paths out/<mode>/libEGL and
\* out/<mode>/libGLESv2, .dylib for macOS and .framework for iOS.
C10_SimpleFusionIsIdentity ==
    [][ (output_artifact_mode \in SimpleModes
         /\ pc \in {"create_macos_dylibs", "create_iphoneos_frameworks"}) =>
           /\ fs' = fs
           /\ attr' = attr
           /\ log' = log
           /\ archives' = archives
           /\ pc' = "archive"
           /\ libs'.bound
           /\ Len(libs'.paths) = 2
           /\ LET extension == IF startswith(output_artifact_mode, macos) THEN ".dylib"
                               ELSE ".framework"
                  folder == str(angle_path) \o "/out/" \o mode
              IN  /\ libs'.paths[1] = folder \o "/libEGL" \o extension
                  /\ libs'.paths[2] = folder \o "/libGLESv2" \o extension
                  /\ \A k \in 1..2 : exists(unstr(libs'.paths[k])) ]_vars

C10_Witness ==
    /\ output_artifact_mode = iphonesimulator_x64
    /\ pc = "archive"
    /\ libs.bound
    /\ log[Len(log)].op = "plutil"
    /\ exists(unstr(libs.paths[1]))

====
